---- MODULE Spec2Model ----
(***************************************************************************)
(* Model of test-image.py: the integration-test harness that starts a      *)
(* container, waits until its port answers, runs the log checks and the    *)
(* registered HTTP checks, collects container stats on a background        *)
(* worker, and always kills the container.                                 *)
(*                                                                         *)
(* Time is counted in ticks of 10 ms, the length of one sleep(0.01).       *)
(***************************************************************************)
EXTENDS Integers, Sequences, FiniteSets, TLC

VARIABLES
    pc,               \* position of the main thread
    argv,             \* sys.argv: [argc, arg]
    environ,          \* names present in os.environ
    HTTP_CHECK_FUNCS, \* the registry (module global)
    reg_order,        \* arguments of the http_check calls made so far, in call order
    container,        \* "none" | "running" | "killed"
    kills,            \* number of container.kill() invocations
    attempt,          \* loop index of wait_for_container_ready
    gets,             \* GET requests issued by wait_for_container_ready
    sleeps,           \* sleep(0.01) calls made by wait_for_container_ready
    refusals,         \* poller attempts that ended in a ConnectionError
    elapsed,          \* ticks since wait_for_container_ready was entered
    last_exc,         \* local last_exc of wait_for_container_ready
    last_get,         \* how the poller's latest GET ended
    poll_result,      \* how wait_for_container_ready ended
    idx,              \* position of perform_http_checks in the registry
    calls,            \* functions invoked so far by check(), and how each ended
    out,              \* what check() has printed: label and outcome
    exc,              \* exception in flight / that ended the run
    exit_code,        \* process exit status, -1 while running
    worker,           \* position of collect_stats_thread
    worker_exc,       \* exception stored in the worker's future
    event,            \* threading.Event: the stop signal
    samples,          \* samples printed by the worker
    after_stop        \* samples delivered to the worker after event.set()

vars == << pc, argv, environ, HTTP_CHECK_FUNCS, reg_order, container, kills,
           attempt, gets, sleeps, refusals, elapsed, last_exc, last_get,
           poll_result, idx, calls, out, exc, exit_code, worker, worker_exc, event,
           samples, after_stop >>

main_vars  == << pc, container, kills, idx, calls, out, exc, exit_code >>
input_vars == << argv, environ >>
reg_vars   == << HTTP_CHECK_FUNCS, reg_order >>
poll_vars  == << attempt, gets, sleeps, refusals, elapsed, last_exc, last_get,
                 poll_result >>
stat_vars  == << worker, worker_exc, event, samples, after_stop >>

----------------------------------------------------------------------------
\* Bounds of the model

\* most time (ticks) the GET attempts of one poll may take in total
MaxGetTicks == 2
\* most samples the stats stream delivers before the stop signal
MaxSamples == 2
\* most samples the stats stream delivers after the stop signal
MaxAfterStop == 2

----------------------------------------------------------------------------
\* Program constants

timeout == 15
TicksPerSecond == 100
MaxAttempts == timeout * 100
TimeoutTicks == timeout * TicksPerSecond

LOCAL_FLAG == "--local"
IMAGE == "image:tag"
RequiredEnv == {"GOOUT_ELASTIC_HOST", "GOOUT_ELASTIC_PORT"}

\* the functions decorated with @http_check, in source order
CheckDefs == << "http_check_root", "http_check_nonexistent_path",
                "http_check_no_params", "http_check_just_id_param",
                "http_check_invalid_id", "http_check_just_language_param",
                "http_check_nonexistent_city_id", "http_check_plzen_cs",
                "http_check_brno_de", "http_check_graz_cs_extra_param" >>

NoExc == [type |-> "None", arg |-> 0]
Exc(t) == [type |-> t, arg |-> 0]

\* how a check function can end: it returns, an assert fails, anything else is raised
FuncOutcomes == {"return", "AssertionError", "Exception"}
\* status codes of the responses a GET can get
Responses == {"200", "404", "500"}
\* how one GET of the poller can end: a response, a ConnectionError, or
\* another exception of the HTTP client
GetOutcomes == Responses \cup {"ConnectionError", "RequestException"}

----------------------------------------------------------------------------
\* Helpers translated from the source

http_check_prepend(list, func) == << func >> \o list

http_check(list, func) == Append(list, func)

check_print_always_good(func, o) == [label |-> func, outcome |-> "Good"]

\* what check() prints for func when func ends with outcome o:
\* the label always, then Good, Bad, or nothing when the error is not caught
check_print(func, o) ==
    [label |-> func,
     outcome |-> IF o = "return" THEN "Good"
                 ELSE IF o = "AssertionError" THEN "Bad"
                 ELSE "none"]

check_raises_uncaught(o) == o # "return"

\* check() lets everything but AssertionError propagate
check_raises(o) == o \notin {"return", "AssertionError"}

on_connection_error_first(prev, e) == IF prev.type = "None" THEN e ELSE prev

\* except ConnectionError as e: last_exc = e
on_connection_error(prev, e) == e

is_ready_2xx(o) == o = "200"

\* return session.get(URL_PREFIX): whatever the GET returns ends the poll,
\* the status code is not looked at
is_ready(o) == o \in Responses

sleep_always(o) == 1

\* sleep(0.01) is inside the except clause: one tick after a ConnectionError,
\* none when the GET returned or raised something else
sleep_after(o) == IF o = "ConnectionError" THEN 1 ELSE 0

worker_entry_check == "check"

\* for stats in container.stats(decode=True): the worker first waits for a
\* sample, the stop signal is tested at the end of the loop body
worker_entry == "next"

after_check_ignore(ev) == "next"

\* if event.is_set(): break  -- otherwise back to the stream
after_check(ev) == IF ev THEN "returned" ELSE "next"

Raise_no_finally(e) ==
    /\ exc' = e
    /\ pc' = "exit"
    /\ exit_code' = 1

\* an exception leaves the current frame: inside the with block of test_image
\* the finally of run_container runs next, otherwise the process dies
Raise(e) ==
    /\ exc' = e
    /\ IF container = "running"
       THEN pc' = "kill" /\ exit_code' = exit_code
       ELSE pc' = "exit" /\ exit_code' = 1

----------------------------------------------------------------------------
Init ==
    /\ pc = "load"
    /\ argv \in [argc : 1..3, arg : {LOCAL_FLAG, IMAGE}]
    /\ environ \in SUBSET RequiredEnv
    /\ HTTP_CHECK_FUNCS = << >>
    /\ reg_order = << >>
    /\ container = "none"
    /\ kills = 0
    /\ attempt = 0 /\ gets = 0 /\ sleeps = 0 /\ refusals = 0 /\ elapsed = 0
    /\ last_exc = NoExc
    /\ last_get = "none"
    /\ poll_result = "none"
    /\ idx = 1
    /\ calls = << >>
    /\ out = << >>
    /\ exc = NoExc
    /\ exit_code = -1
    /\ worker = "idle"
    /\ worker_exc = NoExc
    /\ event = FALSE
    /\ samples = 0
    /\ after_stop = 0

\* module load: one @http_check decorator is applied
Register ==
    /\ pc = "load"
    /\ Len(reg_order) < Len(CheckDefs)
    /\ LET f == CheckDefs[Len(reg_order) + 1] IN
        /\ HTTP_CHECK_FUNCS' = http_check(HTTP_CHECK_FUNCS, f)
        /\ reg_order' = Append(reg_order, f)
    /\ UNCHANGED << main_vars, input_vars, poll_vars, stat_vars >>

Main_no_exit ==
    /\ pc = "load"
    /\ Len(reg_order) = Len(CheckDefs)
    /\ pc' = IF argv.arg = LOCAL_FLAG THEN "test_local" ELSE "test_image"
    /\ UNCHANGED << container, kills, idx, calls, out, exc, exit_code,
                    input_vars, reg_vars, poll_vars, stat_vars >>

\* if __name__ == '__main__': argument count, then mode
Main ==
    /\ pc = "load"
    /\ Len(reg_order) = Len(CheckDefs)
    /\ IF argv.argc # 2
       THEN pc' = "exit" /\ exit_code' = 1
       ELSE /\ pc' = IF argv.arg = LOCAL_FLAG THEN "test_local" ELSE "test_image"
            /\ exit_code' = exit_code
    /\ UNCHANGED << container, kills, idx, calls, out, exc, input_vars,
                    reg_vars, poll_vars, stat_vars >>

\* test_image up to the readiness poll: docker client, run_container
\* (environment lookup, containers.run), requests.Session, start of the clock
TestImage ==
    /\ pc = "test_image"
    /\ IF ~ (RequiredEnv \subseteq environ)
       THEN /\ Raise(Exc("KeyError"))
            /\ UNCHANGED container
       ELSE \E run_ok \in BOOLEAN :
              IF run_ok
              THEN /\ container' = "running"
                   /\ pc' = "poll"
                   /\ UNCHANGED << exc, exit_code >>
              ELSE /\ Raise(Exc("DockerException"))
                   /\ UNCHANGED container
    /\ UNCHANGED << kills, idx, calls, out, input_vars, reg_vars, poll_vars,
                    stat_vars >>

TestLocal_with_logs ==
    /\ pc = "test_local"
    /\ pc' = "logs_each_request"
    /\ UNCHANGED << container, kills, idx, calls, out, exc, exit_code,
                    input_vars, reg_vars, poll_vars, stat_vars >>

\* test_local: a session, then the HTTP checks
TestLocal ==
    /\ pc = "test_local"
    /\ pc' = "http"
    /\ UNCHANGED << container, kills, idx, calls, out, exc, exit_code,
                    input_vars, reg_vars, poll_vars, stat_vars >>

\* one iteration of the loop of wait_for_container_ready; the GET takes d ticks
PollAttempt ==
    /\ pc = "poll"
    /\ attempt < MaxAttempts
    /\ \E o \in GetOutcomes, d \in 0..MaxGetTicks :
        /\ elapsed + d <= sleeps + MaxGetTicks
        /\ gets' = gets + 1
        /\ last_get' = o
        /\ sleeps' = sleeps + sleep_after(o)
        /\ elapsed' = elapsed + d + sleep_after(o)
        /\ IF is_ready(o)
           THEN /\ pc' = "polled"
                /\ poll_result' = "ready"
                /\ UNCHANGED << attempt, refusals, last_exc, exc, exit_code >>
           ELSE IF o = "ConnectionError"
           THEN /\ last_exc' = on_connection_error(last_exc,
                                   [type |-> "ConnectionError", arg |-> gets'])
                /\ refusals' = refusals + 1
                /\ attempt' = attempt + 1
                /\ UNCHANGED << pc, poll_result, exc, exit_code >>
           ELSE /\ Raise(Exc(o))
                /\ poll_result' = "error"
                /\ UNCHANGED << attempt, refusals, last_exc >>
    /\ UNCHANGED << container, kills, idx, calls, out, input_vars, reg_vars,
                    stat_vars >>

\* the loop of wait_for_container_ready is exhausted: raise AssertionError
\* whose message carries last_exc
PollTimeout ==
    /\ pc = "poll"
    /\ attempt >= MaxAttempts
    /\ Raise([type |-> "AssertionError", arg |-> last_exc.arg])
    /\ poll_result' = "timeout"
    /\ UNCHANGED << container, kills, idx, calls, out, attempt, gets, sleeps,
                    refusals, elapsed, last_exc, last_get, input_vars, reg_vars,
                    stat_vars >>

\* test_image after the poller returned: start_duration is computed and
\* printed; the poller's frame and the clock reading are gone afterwards
ReportStart ==
    /\ pc = "polled"
    /\ pc' = "logs_on_startup"
    /\ attempt' = 0 /\ gets' = 0 /\ sleeps' = 0 /\ refusals' = 0 /\ elapsed' = 0
    /\ last_exc' = NoExc
    /\ last_get' = "none"
    /\ UNCHANGED << poll_result, container, kills, idx, calls, out, exc,
                    exit_code, input_vars, reg_vars, stat_vars >>

\* run func under check(): label, call, Good/Bad, or the error propagates
Check(func, next_pc) ==
    \E o \in FuncOutcomes :
        /\ calls' = Append(calls, [func |-> func, result |-> o])
        /\ out' = Append(out, check_print(func, o))
        /\ IF check_raises(o)
           THEN Raise(Exc(o))
           ELSE pc' = next_pc /\ UNCHANGED << exc, exit_code >>

\* check(logs_on_startup, container)
LogsOnStartup ==
    /\ pc = "logs_on_startup"
    /\ Check("logs_on_startup", "logs_each_request")
    /\ UNCHANGED << container, kills, idx, input_vars, reg_vars, poll_vars,
                    stat_vars >>

\* check(logs_each_request, container, session)
LogsEachRequest ==
    /\ pc = "logs_each_request"
    /\ Check("logs_each_request", "http")
    /\ UNCHANGED << container, kills, idx, input_vars, reg_vars, poll_vars,
                    stat_vars >>

\* one iteration of the loop of perform_http_checks
HttpCheck ==
    /\ pc = "http"
    /\ idx <= Len(HTTP_CHECK_FUNCS)
    /\ Check(HTTP_CHECK_FUNCS[idx], "http")
    /\ idx' = IF pc' = "http" THEN idx + 1 ELSE idx
    /\ UNCHANGED << container, kills, input_vars, reg_vars, poll_vars, stat_vars >>

\* perform_http_checks returns: test_local ends, test_image goes on to the
\* stats scope
HttpChecksDone ==
    /\ pc = "http"
    /\ idx > Len(HTTP_CHECK_FUNCS)
    /\ IF argv.arg = LOCAL_FLAG
       THEN pc' = "exit" /\ exit_code' = 0
       ELSE pc' = "collect_stats" /\ exit_code' = exit_code
    /\ UNCHANGED << container, kills, idx, calls, out, exc, input_vars,
                    reg_vars, poll_vars, stat_vars >>

\* collect_stats up to the yield: executor, event, submit; the body is pass
CollectStatsEnter ==
    /\ pc = "collect_stats"
    /\ worker' = worker_entry
    /\ event' = FALSE
    /\ pc' = "stats_set"
    /\ UNCHANGED << container, kills, idx, calls, out, exc, exit_code,
                    worker_exc, samples, after_stop, input_vars, reg_vars,
                    poll_vars >>

CollectStatsSet_skip ==
    /\ pc = "stats_set"
    /\ pc' = "stats_result"
    /\ UNCHANGED << container, kills, idx, calls, out, exc, exit_code,
                    input_vars, reg_vars, poll_vars, stat_vars >>

\* finally: event.set()
CollectStatsSet ==
    /\ pc = "stats_set"
    /\ event' = TRUE
    /\ pc' = "stats_result"
    /\ UNCHANGED << container, kills, idx, calls, out, exc, exit_code, worker,
                    worker_exc, samples, after_stop, input_vars, reg_vars,
                    poll_vars >>

\* assert collect_stats_future.result(2) is None, the worker has finished
\* in time: None, or the worker's exception is raised again
CollectStatsResult ==
    /\ pc = "stats_result"
    /\ worker \in {"returned", "raised"}
    /\ IF worker = "raised"
       THEN Raise(worker_exc)
       ELSE pc' = "kill" /\ UNCHANGED << exc, exit_code >>
    /\ UNCHANGED << container, kills, idx, calls, out, input_vars, reg_vars,
                    poll_vars, stat_vars >>

CollectStatsNoTimeout ==
    /\ pc = "stats_result"
    /\ worker \notin {"returned", "raised"}
    /\ FALSE
    /\ UNCHANGED vars

\* collect_stats_future.result(2), the worker has not finished within 2 s
CollectStatsTimeout ==
    /\ pc = "stats_result"
    /\ worker \notin {"returned", "raised"}
    /\ Raise(Exc("TimeoutError"))
    /\ UNCHANGED << container, kills, idx, calls, out, input_vars, reg_vars,
                    poll_vars, stat_vars >>

\* finally of run_container: container.kill(), which may itself raise; then
\* the process ends, with the exception in flight if there is one
Kill ==
    /\ pc = "kill"
    /\ kills' = kills + 1
    /\ container' = "killed"
    /\ \E kill_ok \in BOOLEAN :
        exc' = IF kill_ok THEN exc ELSE Exc("APIError")
    /\ exit_code' = IF exc'.type = "None" THEN 0 ELSE 1
    /\ pc' = "exit"
    /\ UNCHANGED << idx, calls, out, input_vars, reg_vars, poll_vars, stat_vars >>

----------------------------------------------------------------------------
\* collect_stats_thread

\* the stream delivers a sample: the three values are computed and printed,
\* or a missing key raises KeyError
WorkerSample ==
    /\ worker = "next"
    /\ container = "running"
    /\ IF event THEN after_stop < MaxAfterStop ELSE samples < MaxSamples
    /\ after_stop' = IF event THEN after_stop + 1 ELSE after_stop
    /\ \E well_formed \in BOOLEAN :
        IF well_formed
        THEN /\ samples' = samples + 1
             /\ worker' = "check"
             /\ UNCHANGED worker_exc
        ELSE /\ worker' = "raised"
             /\ worker_exc' = Exc("KeyError")
             /\ UNCHANGED samples
    /\ UNCHANGED << event, main_vars, input_vars, reg_vars, poll_vars >>

\* if event.is_set(): break
WorkerCheck ==
    /\ worker = "check"
    /\ worker' = after_check(event)
    /\ UNCHANGED << worker_exc, event, samples, after_stop, main_vars,
                    input_vars, reg_vars, poll_vars >>

\* container.stats() raises while the worker waits for the next sample
WorkerStreamError ==
    /\ worker = "next"
    /\ worker' = "raised"
    /\ worker_exc' = Exc("StreamError")
    /\ UNCHANGED << event, samples, after_stop, main_vars, input_vars,
                    reg_vars, poll_vars >>

\* the stream of a container that is gone ends: the for loop is left
WorkerStreamEnd ==
    /\ worker = "next"
    /\ container = "killed"
    /\ worker' = "returned"
    /\ UNCHANGED << worker_exc, event, samples, after_stop, main_vars,
                    input_vars, reg_vars, poll_vars >>

Worker == WorkerSample \/ WorkerCheck \/ WorkerStreamError \/ WorkerStreamEnd

----------------------------------------------------------------------------
Next ==
    \/ Register
    \/ Main
    \/ TestImage
    \/ TestLocal
    \/ PollAttempt
    \/ PollTimeout
    \/ ReportStart
    \/ LogsOnStartup
    \/ LogsEachRequest
    \/ HttpCheck
    \/ HttpChecksDone
    \/ CollectStatsEnter
    \/ CollectStatsSet
    \/ CollectStatsResult
    \/ CollectStatsTimeout
    \/ Kill
    \/ WorkerSample
    \/ WorkerCheck
    \/ WorkerStreamError
    \/ WorkerStreamEnd

Spec == Init /\ [][Next]_vars

\* the worker thread is scheduled, and the stream it reads delivers its next
\* item (a sample, an error or its end)
FairSpec == Spec /\ WF_vars(Worker)

\* the steps of the main thread
MainThread ==
    \/ Register \/ Main \/ TestImage \/ TestLocal \/ PollAttempt \/ PollTimeout
    \/ ReportStart \/ LogsOnStartup \/ LogsEachRequest \/ HttpCheck
    \/ HttpChecksDone \/ CollectStatsEnter \/ CollectStatsSet
    \/ CollectStatsResult \/ CollectStatsTimeout \/ Kill

\* the main thread is scheduled and each of its blocking calls returns: a GET
\* ends, result(2) returns or times out, kill returns; nothing is assumed
\* about the worker or the stats stream
FairMainSpec == Spec /\ WF_vars(MainThread)

----------------------------------------------------------------------------
\* Derived views of the state

IsPrefix(s, t) == Len(s) <= Len(t) /\ SubSeq(t, 1, Len(s)) = s

LogChecks == {"logs_on_startup", "logs_each_request"}

\* the invocations and reports made from within perform_http_checks
HttpInvoked == SelectSeq(calls, LAMBDA c : c.func \notin LogChecks)
HttpCalls == [i \in 1..Len(HttpInvoked) |-> HttpInvoked[i].func]
HttpOut == SelectSeq(out, LAMBDA r : r.label \notin LogChecks)

WorkerFinished == worker \in {"returned", "raised"}
WorkerRunning == worker \in {"next", "check"}

\* the collect_stats scope has been entered and left again
ScopeExited == worker # "idle" /\ pc \in {"kill", "exit"}

----------------------------------------------------------------------------
\* C1: a container that was created is killed exactly once by the time the
\* run ends, whatever ended it; kill is never invoked more than once, and
\* never when no container was created.
C1_KilledExactlyOnce ==
    /\ kills <= 1
    /\ (container = "none" => kills = 0)
    /\ (pc = "exit" /\ container # "none" => kills = 1)

\* a run that created the container and was ended by an exception
C1_Witness ==
    /\ pc = "exit"
    /\ container # "none"
    /\ kills = 1
    /\ exc.type \in {"AssertionError", "Exception", "TimeoutError", "KeyError"}

\* C2: assertion failures of checks never stop perform_http_checks: the
\* checks it invoked are a prefix of the registry, each one is reported, it
\* stops short of the whole registry only on an error that is not an
\* assertion failure, and otherwise it has invoked every registered check
\* exactly once.
C2_FailingCheckIsolated ==
    LET H == HttpCalls
        R == HttpOut
    IN  /\ IsPrefix(H, HTTP_CHECK_FUNCS)
        /\ Len(R) = Len(H)
        /\ \A i \in 1..Len(H) :
            /\ R[i].label = H[i]
            /\ i < Len(H) => R[i].outcome \in {"Good", "Bad"}
        /\ (pc # "http" /\ Len(H) > 0 /\ R[Len(R)].outcome \in {"Good", "Bad"})
            => H = HTTP_CHECK_FUNCS

\* perform_http_checks has returned after a run in which the first and a
\* later check failed their assertions
C2_Witness ==
    /\ pc \in {"collect_stats", "exit"}
    /\ HttpCalls = HTTP_CHECK_FUNCS
    /\ Len(HttpOut) = Len(CheckDefs)
    /\ HttpOut[1].outcome = "Bad"
    /\ HttpOut[3].outcome = "Bad"
    /\ HttpOut[Len(HttpOut)].outcome = "Good"

\* C3: once the collect_stats scope has been left, the worker it started is
\* no longer running.
C3_WorkerEndsWithScope == ScopeExited => WorkerFinished

\* C4: if the worker has raised, the exit of the collect_stats scope raises
\* that same error (checked where the scope has just been left, before the
\* container is killed).
C4_WorkerErrorSurfaces ==
    (pc = "kill" /\ worker = "raised") => exc = worker_exc

\* C5: the poller returns at the first attempt that gets a response: while it
\* polls every GET so far was refused and followed by one sleep, and when it
\* has returned it has issued exactly one GET more than there were refusals
\* and slept exactly once per refusal.
C5_ReturnsAtFirstResponse ==
    /\ pc = "poll" =>
        /\ gets = refusals /\ sleeps = refusals /\ attempt = refusals
        /\ gets <= MaxAttempts
    /\ pc = "polled" =>
        /\ poll_result = "ready"
        /\ gets = refusals + 1
        /\ sleeps = refusals
        /\ gets <= MaxAttempts

\* the poller has returned at its third attempt, after two refusals
C5_Witness ==
    /\ pc = "polled"
    /\ refusals = 2
    /\ gets = 3
    /\ sleeps = 2

\* C6: whenever the poller has returned or failed, no more than the timeout
\* of 15 s has passed since it was entered.
C6_WithinTimeout ==
    (pc = "polled" \/ poll_result \in {"timeout", "error"})
        => elapsed <= TimeoutTicks

\* C7: the poller's timeout failure is raised only after all 1500 attempts
\* were refused, it carries the ConnectionError of the last attempt, and it
\* ends the run: no check has run, no stats worker was started, the exit
\* status is a failure.
C7_TimeoutOnlyAfterBudget ==
    poll_result = "timeout" =>
        /\ refusals = MaxAttempts
        /\ gets = MaxAttempts
        /\ pc \in {"kill", "exit"}
        /\ (pc = "kill" =>
                exc = [type |-> "AssertionError", arg |-> MaxAttempts])
        /\ last_exc = [type |-> "ConnectionError", arg |-> MaxAttempts]
        /\ calls = << >>
        /\ out = << >>
        /\ worker = "idle"
        /\ (pc = "exit" => exit_code = 1)

\* the run has ended on the poller's timeout
C7_Witness ==
    /\ poll_result = "timeout"
    /\ pc = "exit"
    /\ kills = 1
    /\ refusals = MaxAttempts

\* C8: the registry only ever grows at its end, it holds the checks in the
\* order of the http_check calls, and perform_http_checks invokes them in
\* that order.
C8_RegistrationOrder ==
    /\ [][IsPrefix(HTTP_CHECK_FUNCS, HTTP_CHECK_FUNCS')]_vars
    /\ [](/\ HTTP_CHECK_FUNCS = reg_order
          /\ IsPrefix(HttpCalls, reg_order)
          /\ (pc \in {"collect_stats", "stats_set", "stats_result"}
                => HttpCalls = reg_order))

\* every decorator has been applied and perform_http_checks has run through
C8_Witness ==
    /\ pc = "collect_stats"
    /\ Len(reg_order) = Len(CheckDefs)
    /\ HttpCalls = reg_order

PreconditionEffects ==
    /\ container = "none"
    /\ kills = 0
    /\ calls = << >>
    /\ out = << >>
    /\ worker = "idle"
    /\ poll_result = "none"
    /\ (pc = "exit" => exit_code = 1)

\* C9 as stated: a missing environment variable, a wrong argument count or a
\* failed container creation means no container, no check, and a failed run.
C9_PreconditionAborts ==
    (\/ argv.argc # 2
     \/ ~ (RequiredEnv \subseteq environ)
     \/ exc.type = "DockerException")
        => PreconditionEffects

\* C9 amended: the same, the missing environment variable counting only in
\* a run that was given an image reference.
C9_PreconditionAbortsImage ==
    (\/ argv.argc # 2
     \/ (argv.arg = IMAGE /\ ~ (RequiredEnv \subseteq environ))
     \/ exc.type = "DockerException")
        => PreconditionEffects

\* a run with an image reference has ended on a missing environment variable
C9_Witness ==
    /\ pc = "exit"
    /\ argv.argc = 2
    /\ argv.arg = IMAGE
    /\ ~ (RequiredEnv \subseteq environ)
    /\ exc.type = "KeyError"
    /\ exit_code = 1

\* C10: after the stop signal the worker takes at most one further sample,
\* and a worker that is running when the signal is set eventually finishes.
C10_StopsAfterSignal ==
    /\ [](after_stop <= 1)
    /\ [][(event /\ worker = "check") => worker' \in {"check", "returned"}]_vars
    /\ ((event /\ WorkerRunning) ~> WorkerFinished)

\* the worker has left its loop on the stop signal, having taken one sample
\* after the signal was set
C10_Witness ==
    /\ event
    /\ worker = "returned"
    /\ after_stop = 1
    /\ container = "running"

----------------------------------------------------------------------------
LocalRun == argv.argc = 2 /\ argv.arg = LOCAL_FLAG
ImageRun == argv.argc = 2 /\ argv.arg = IMAGE

\* what a --local run never touches: container, poller, log checks, worker
LocalFrame ==
    /\ container = "none"
    /\ kills = 0
    /\ poll_result = "none" /\ gets = 0 /\ sleeps = 0
    /\ worker = "idle" /\ samples = 0 /\ ~ event
    /\ Len(HttpInvoked) = Len(calls)
    /\ Len(HttpOut) = Len(out)
    /\ IsPrefix(HttpCalls, reg_order)

\* C11 as stated: a --local run touches neither container, poller, log
\* checks nor worker, and when it has ended every registered HTTP check has
\* been invoked exactly once in registration order.
C11_LocalOnlyHttp ==
    LocalRun =>
        /\ LocalFrame
        /\ (pc = "exit" => HttpCalls = reg_order)

\* C11 amended: the same, except that a check raising an error that is not
\* an assertion failure ends the run at that check; the run ends with status
\* 0 exactly when every registered check was invoked.
C11_LocalOnlyHttpUnlessError ==
    LocalRun =>
        /\ LocalFrame
        /\ (pc = "exit" =>
              \/ HttpCalls = reg_order /\ exit_code = 0 /\ exc = NoExc
              \/ /\ Len(calls) > 0
                 /\ calls[Len(calls)].result \notin {"return", "AssertionError"}
                 /\ exit_code = 1)
        /\ \A i \in 1..Len(calls) :
              i < Len(calls) => calls[i].result \in {"return", "AssertionError"}

\* a --local run has ended after all ten checks, one of them failed
C11_Witness ==
    /\ LocalRun
    /\ pc = "exit"
    /\ exit_code = 0
    /\ Len(calls) = Len(CheckDefs)
    /\ HttpCalls = reg_order
    /\ calls[2].result = "AssertionError"

\* the check invoked last raised an error that is not an assertion failure
LastCheckRaised ==
    /\ Len(calls) > 0
    /\ calls[Len(calls)].result \notin {"return", "AssertionError"}

\* C12: when a check of a test_image run raises an error that is not an
\* assertion failure, neither Good nor Bad is printed for it, no later check
\* is invoked, the stats worker is never started, and that error is the one
\* that leaves test_image, after the container was killed, and fails the run.
C12_OnlyAssertionsIsolated ==
    (ImageRun /\ LastCheckRaised) =>
        /\ Len(out) = Len(calls)
        /\ out[Len(out)].outcome = "none"
        /\ pc \in {"kill", "exit"}
        /\ worker = "idle"
        /\ exc.type = calls[Len(calls)].result
        /\ (pc = "exit" => kills = 1 /\ exit_code = 1)

\* the poller's latest GET was refused: it has slept and polls on, or that
\* was the last attempt of the budget
RefusalRetried ==
    last_get = "ConnectionError" =>
        \/ pc = "poll" /\ sleeps = gets /\ poll_result = "none"
        \/ poll_result = "timeout" /\ gets = MaxAttempts

\* C13 as stated: a ConnectionError is retried, every other outcome of a GET
\* makes the poller return as ready at that attempt.
C13_OnlyRefusalRetried ==
    /\ RefusalRetried
    /\ (last_get \notin {"none", "ConnectionError"} =>
            pc = "polled" /\ poll_result = "ready")

\* C13 amended: a ConnectionError is retried, every response, whatever its
\* status, makes the poller return as ready at that attempt, and any other
\* exception of the GET propagates: the poller neither retries nor returns,
\* and no check runs.
C13_ResponseReadyErrorPropagates ==
    /\ RefusalRetried
    /\ (last_get \in Responses =>
            pc = "polled" /\ poll_result = "ready" /\ exc = NoExc)
    /\ (last_get \notin Responses \cup {"none", "ConnectionError"} =>
            /\ poll_result = "error"
            /\ pc \in {"kill", "exit"}
            /\ (pc = "kill" => exc.type = last_get)
            /\ calls = << >>
            /\ worker = "idle")

\* the poller has returned as ready on a 500 response after a refusal
C13_Witness ==
    /\ pc = "polled"
    /\ last_get = "500"
    /\ refusals = 1
    /\ poll_result = "ready"

\* the collect_stats scope is open: entered, result(2) not yet over
ScopeOpen == pc \in {"stats_set", "stats_result"}

\* the order of the main flow of test_image: container, poller, the two log
\* checks, the HTTP checks, the stats scope
MainFlowOrdered ==
    /\ (pc \in {"poll", "polled"} \/ poll_result # "none") => container # "none"
    /\ ImageRun =>
        /\ Len(calls) > 0 => poll_result = "ready"
        /\ IsPrefix([i \in 1..Len(calls) |-> calls[i].func],
                    << "logs_on_startup", "logs_each_request" >> \o reg_order)
    /\ (worker # "idle" \/ ScopeOpen) => Len(calls) = 2 + Len(reg_order)
    /\ pc \in {"poll", "polled", "logs_on_startup", "logs_each_request", "http"}
        => worker = "idle"

\* C14: the main flow is strictly ordered, no check starts before the poller
\* has returned as ready, and the worker runs only while the stats scope is
\* open.
C14_StrictOrder ==
    /\ MainFlowOrdered
    /\ (WorkerRunning => ScopeOpen)

\* C15: once the stats scope is open the main thread always gets out of it
\* and on to the kill and the end of the run, whatever the worker and the
\* stats stream do, also when the worker never finishes.
C15_StatsCannotHang ==
    /\ ScopeOpen ~> (pc = "kill")
    /\ ScopeOpen ~> (pc = "exit" /\ kills = 1 /\ container = "killed")

\* the run has ended although the stream never delivered anything and the
\* worker is still waiting for its first sample
C15_Witness ==
    /\ pc = "exit"
    /\ kills = 1
    /\ worker = "next"
    /\ samples = 0
    /\ event

\* C16: every check() call prints the label of its function with one
\* outcome, Good exactly when the function returned and Bad exactly when it
\* failed an assertion, and in both cases check() returns to its caller: no
\* exception is in flight and the main flow goes on with its next statement.
C16_FailuresAreValues ==
    /\ [](/\ Len(out) = Len(calls)
          /\ \A i \in 1..Len(calls) :
                /\ out[i].label = calls[i].func
                /\ (calls[i].result = "return") <=> (out[i].outcome = "Good")
                /\ (calls[i].result = "AssertionError") <=> (out[i].outcome = "Bad"))
    /\ [][(/\ Len(calls') > Len(calls)
           /\ calls'[Len(calls')].result \in {"return", "AssertionError"})
          => /\ Len(calls') = Len(calls) + 1
             /\ exc' = exc
             /\ exit_code' = exit_code
             /\ pc' \in {"logs_each_request", "http"}]_vars

\* three checks have run: the first was Good, the next two Bad, and the
\* HTTP checks go on
C16_Witness ==
    /\ pc = "http"
    /\ Len(out) = 3
    /\ calls[1].result = "return" /\ out[1].outcome = "Good"
    /\ calls[2].result = "AssertionError" /\ out[2].outcome = "Bad"
    /\ calls[3].result = "AssertionError" /\ out[3].outcome = "Bad"
    /\ exc = NoExc

\* C18: the container is never killed while the stats scope is open: kill is
\* invoked only from the finally of run_container, after the scope has been
\* left, and if the scope was ever entered the stop signal is set by then.
C18_ScopeClosedBeforeKill ==
    /\ [](ScopeOpen => container = "running" /\ kills = 0)
    /\ []((kills > 0 /\ worker # "idle") => event)
    /\ [][kills' > kills =>
            /\ pc = "kill"
            /\ ~ ScopeOpen'
            /\ (worker # "idle" => event)]_vars

\* a complete run: the scope was closed with the worker finished, then the
\* container was killed
C18_Witness ==
    /\ pc = "exit"
    /\ kills = 1
    /\ event
    /\ worker = "returned"
    /\ exc = NoExc
    /\ exit_code = 0

\* C19: the worker tests the stop signal only with a sample behind it: it
\* leaves its loop on the signal only from the test that follows a sample,
\* and with the signal set before the first sample it still takes one sample
\* before it returns (unless the stream ends or fails, or the sample fails).
C19_StopSeenAfterSample ==
    /\ [](worker = "check" => samples >= 1)
    /\ []((event /\ samples = 0 /\ worker = "returned") => container = "killed")
    /\ [][(worker = "check" /\ worker' = "returned") => event /\ samples >= 1]_vars
    /\ [][(worker # "returned" /\ worker' = "returned" /\ container = "running")
            => worker = "check"]_vars

\* the signal was set before the first sample: the worker has printed that
\* one sample and then returned, the scope owner still waiting in result(2)
C19_Witness ==
    /\ pc = "stats_result"
    /\ event
    /\ worker = "returned"
    /\ samples = 1
    /\ after_stop = 1

====
